---------------------------- MODULE Spec2Model ----------------------------
(***************************************************************************)
(* A model of program_10.py: descriptive statistics of daily streamflow.   *)
(*                                                                         *)
(* Numbers.  A pandas/numpy float is one of                                *)
(*   [k |-> "nan"]                      not-a-number (also a missing       *)
(*                                      discharge)                         *)
(*   [k |-> "inf", sgn |-> 1 or -1]     an infinity                        *)
(*   [k |-> "num", n |-> a, d |-> b]    the rational a/b, b > 0, reduced   *)
(*   [k |-> "root", n |-> a, d |-> b,   times * sign(a) * sqrt(|a|/b), the *)
(*    times |-> c]                      form of a coefficient of variation *)
(*   [k |-> "skew", n, S2, S3]          a sample skewness (see skew)       *)
(*   [k |-> "mean", of |-> values]      a mean of values not all rational  *)
(* Arithmetic is exact: rounding of binary floating point is not modelled. *)
(* Discharges read from the file are whole numbers or missing.             *)
(***************************************************************************)
EXTENDS Integers, Sequences, FiniteSets, TLC

VARIABLES
    Qvalues,          \* the bucket handed to a metric function
    scale,            \* the factor the bucket was scaled by (R-B index runs)
    metric,           \* which metric function has run on Qvalues ("none" before)
    result,           \* what it returned
    result2,          \* what it returned on the companion bucket
    pc,               \* position of the script (lines 284-303)
    FileDF,           \* the table ReadData returned
    DataDF,           \* the observation table, a sequence of rows in index order
    MissingValues,    \* the missing-value count returned with DataDF
    window,           \* <<startDate, endDate>> given to ClipData
    WYDataDF,         \* the table of GetAnnualStatistics
    MoDataDF,         \* the table of GetMonthlyStatistics
    MonthlyAverages   \* the table of GetMonthlyAverages

vars == <<Qvalues, scale, metric, result, result2, pc, FileDF, DataDF, MissingValues,
          window, WYDataDF, MoDataDF, MonthlyAverages>>

metricVars == <<Qvalues, scale, metric, result, result2>>
scriptVars == <<pc, FileDF, DataDF, MissingValues, window, WYDataDF, MoDataDF, MonthlyAverages>>

---------------------------------------------------------------------------
(* Bounds of the model *)

MaxShort == 4         \* longest bucket over the full value range
MaxLong == 8          \* longest bucket over the narrow value range
MaxObs == 3           \* most observations of a sparse observation table
MaxMonths == 25       \* most months of a regular monthly observation table

(* Program constants *)

Window7 == 7          \* rolling(window=7)
Times3 == 3           \* 3*Qvalues.median()
Percent == 100        \* (sd/mean)*100
Stride == 12          \* [m::12]
Rows == 12            \* index=range(1,13)
October == 10         \* 'AS-OCT'
SiteNo == 3335000     \* the station of the first file

---------------------------------------------------------------------------
(* Floats *)

NaN == [k |-> "nan"]
Inf(s) == [k |-> "inf", sgn |-> s]

Abs(a) == IF a < 0 THEN -a ELSE a
Sign(a) == IF a < 0 THEN -1 ELSE IF a = 0 THEN 0 ELSE 1

RECURSIVE GCD(_, _)
GCD(a, b) == IF b = 0 THEN a ELSE GCD(b, a % b)

Reduced(kind, a, b) ==
    LET g == GCD(Abs(a), Abs(b))
        s == Sign(b)
    IN  [k |-> kind, n |-> (s * a) \div g, d |-> (s * b) \div g]

Num(a, b) == Reduced("num", a, b)
Root(a, b) == Reduced("root", a, b)
F(i) == Num(i, 1)

isna(v) == v.k = "nan"

\* x < y for two rationals
Less(x, y) == x.n * y.d < y.n * x.d

\* a variant that masks a zero divisor with a zero result
FDiv_Masked(x, y) ==
    IF isna(x) \/ isna(y) THEN NaN
    ELSE IF y.n = 0 THEN F(0)
    ELSE Num(x.n * y.d, x.d * y.n)

\* numpy true division of two floats that are rationals or not-a-number
FDiv(x, y) ==
    IF isna(x) \/ isna(y) THEN NaN
    ELSE IF y.n = 0 THEN (IF x.n = 0 THEN NaN ELSE Inf(Sign(x.n)))
    ELSE Num(x.n * y.d, x.d * y.n)

---------------------------------------------------------------------------
(* Series reductions, all of them skipping missing values as pandas does *)

dropna(Q) == SelectSeq(Q, LAMBDA v : ~isna(v))

RECURSIVE SumInt(_)
SumInt(P) == IF P = <<>> THEN 0 ELSE Head(P).n + SumInt(Tail(P))

RECURSIVE SumPow(_, _, _, _)
\* sum over P of (n*x - S)^e
SumPow(P, n, S, e) ==
    IF P = <<>> THEN 0
    ELSE LET dev == n * Head(P).n - S
         IN  (IF e = 2 THEN dev * dev ELSE dev * dev * dev) + SumPow(Tail(P), n, S, e)

mean(Q) ==
    LET P == dropna(Q)
    IN  IF P = <<>> THEN NaN ELSE Num(SumInt(P), Len(P))

max(Q) ==
    LET P == dropna(Q)
    IN  IF P = <<>> THEN NaN
        ELSE CHOOSE v \in {P[i] : i \in 1..Len(P)} :
                 \A i \in 1..Len(P) : P[i].n <= v.n

\* the k-th smallest value of P, 1-based
Kth(P, kk) ==
    CHOOSE v \in {P[i].n : i \in 1..Len(P)} :
        /\ Cardinality({i \in 1..Len(P) : P[i].n < v}) < kk
        /\ Cardinality({i \in 1..Len(P) : P[i].n <= v}) >= kk

median(Q) ==
    LET P == dropna(Q)
        n == Len(P)
    IN  IF n = 0 THEN NaN
        ELSE IF n % 2 = 1 THEN F(Kth(P, (n + 1) \div 2))
        ELSE Num(Kth(P, n \div 2) + Kth(P, n \div 2 + 1), 2)

\* the sample variance (ddof = 1); std() is its square root
variance(Q) ==
    LET P == dropna(Q)
        n == Len(P)
    IN  IF n < 2 THEN NaN
        ELSE Num(SumPow(P, n, SumInt(P), 2), n * n * (n - 1))

\* (sd / mean) * 100 of lines 165-167 and 202-204
Coeff_Var(Q) ==
    LET v == variance(Q)
        m == mean(Q)
    IN  IF isna(v) \/ isna(m) THEN NaN
        ELSE IF m.n = 0 THEN (IF v.n = 0 THEN NaN ELSE Inf(1))
        ELSE [times |-> Percent] @@ Root(Sign(m.n) * v.n * m.d * m.d, v.d * m.n * m.n)

\* scipy.stats.skew(x): biased sample skewness m3 / m2^1.5; nan_policy is
\* 'propagate', so a missing value in x makes the result not-a-number.
\* With S2 and S3 the sums of the squares and cubes of n*x - sum(x), the
\* skewness is sqrt(n) * S3 / S2^1.5; it is kept as [k |-> "skew", n, S2, S3].
\* For a constant x (S2 = 0) scipy returns not-a-number (releases before 1.9
\* returned 0 there; the releases agree on every other input).
skew(Q) ==
    LET n == Len(Q)
        S == SumInt(Q)
        S2 == SumPow(Q, n, S, 2)
        S3 == SumPow(Q, n, S, 3)
    IN  IF n = 0 \/ \E i \in 1..Len(Q) : isna(Q[i]) THEN NaN
        ELSE IF S2 = 0 THEN NaN
        ELSE [k |-> "skew", n |-> n, S2 |-> S2, S3 |-> S3]

---------------------------------------------------------------------------
(* Metric functions *)

\* a variant that counts the missing entries in the total time
CalcTqmean_NoDrop(Q) ==
    LET T == Len(Q)
        m == mean(Q)
        above == Cardinality({i \in 1..Len(dropna(Q)) :
                     ~isna(m) /\ Less(m, dropna(Q)[i])})
    IN  FDiv(F(above), F(T))

CalcTqmean(Q) ==
    LET P == dropna(Q)
        T == Len(P)
        m == mean(P)
        above == Cardinality({i \in 1..T : ~isna(m) /\ Less(m, P[i])})
    IN  FDiv(F(above), F(T))

\* Series.diff() followed by abs().sum(): the first difference is missing
\* and is skipped by the sum
RECURSIVE AbsDiffSum(_)
AbsDiffSum(P) ==
    IF Len(P) < 2 THEN 0
    ELSE Abs(P[2].n - P[1].n) + AbsDiffSum(Tail(P))

\* a variant that differences before dropping the missing entries, so that a
\* difference across a missing day is lost
RECURSIVE DiffThenDropSum(_)
DiffThenDropSum(Q) ==
    IF Len(Q) < 2 THEN 0
    ELSE (IF isna(Q[1]) \/ isna(Q[2]) THEN 0 ELSE Abs(Q[2].n - Q[1].n))
         + DiffThenDropSum(Tail(Q))

CalcRBindex_DiffThenDrop(Q) ==
    FDiv(F(DiffThenDropSum(Q)), F(SumInt(dropna(Q))))

CalcRBindex(Q) ==
    LET P == dropna(Q)
        Qs == F(AbsDiffSum(P))
        Qt == F(SumInt(P))
    IN  FDiv(Qs, Qt)

\* Series.rolling(window=w).mean(): position i holds the mean of the w
\* values ending at i, and is missing while fewer than w values are there
rolling_mean(P, w) ==
    [i \in 1..Len(P) |->
        IF i < w THEN NaN ELSE Num(SumInt(SubSeq(P, i - w + 1, i)), w)]

\* Series.min(): the smallest value that is not missing
min(Q) ==
    LET P == dropna(Q)
    IN  IF P = <<>> THEN NaN
        ELSE CHOOSE v \in {P[i] : i \in 1..Len(P)} :
                 \A i \in 1..Len(P) : ~Less(P[i], v)

\* line 116 ends in ".min" with no call: what is returned is the bound
\* method of the rolling-mean series, not its minimum
Calc7Q(Q) ==
    LET P == dropna(Q)
    IN  [k |-> "method", name |-> "min", self |-> rolling_mean(P, Window7)]

CalcExceed3TimesMedian(Q) ==
    LET P == dropna(Q)
        md == median(P)
    IN  F(Cardinality({i \in 1..Len(P) :
              ~isna(md) /\ Less(Num(Times3 * md.n, md.d), P[i])}))

\* one row of GetAnnualStatistics: the metrics of one water-year bucket
AnnualRow(Q) ==
    [Mean_Flow |-> mean(Q),
     Peak_Flow |-> max(Q),
     Median    |-> median(Q),
     Coeff_Var |-> Coeff_Var(Q),
     Skew      |-> skew(Q),
     TQmean    |-> CalcTqmean(Q),
     RBindex   |-> CalcRBindex(Q),
     Q7        |-> Calc7Q(Q),
     Median3x  |-> CalcExceed3TimesMedian(Q)]

\* one row of GetMonthlyStatistics: the metrics of one calendar-month bucket
MonthlyRow(Q) ==
    [Mean_Flow        |-> mean(Q),
     Coeff_Variantion |-> Coeff_Var(Q),
     TQmean           |-> CalcTqmean(Q),
     RBindex          |-> CalcRBindex(Q)]

---------------------------------------------------------------------------
(* Buckets the metric functions are run on *)

ShortVals == {F(-1), F(0), F(1), F(2), NaN}
LongVals == {F(1), F(2), NaN}
Scales == {1, 2, 3}

SeqsUpTo(S, lo, hi) == UNION {[1..n -> S] : n \in lo..hi}

Buckets == SeqsUpTo(ShortVals, 0, MaxShort) \cup SeqsUpTo(LongVals, Window7, MaxLong)

Scaled(c, Q) == [i \in 1..Len(Q) |-> IF isna(Q[i]) THEN NaN ELSE F(c * Q[i].n)]

NoTable == <<>>
NoWindow == <<>>

MetricInit ==
    /\ Qvalues \in Buckets
    /\ scale = 1
    /\ metric = "none"
    /\ result = NaN
    /\ result2 = NaN
    /\ pc = "idle"
    /\ FileDF = NoTable
    /\ DataDF = NoTable
    /\ MissingValues = 0
    /\ window = NoWindow
    /\ WYDataDF = NoTable
    /\ MoDataDF = NoTable
    /\ MonthlyAverages = NoTable

DoCalcTqmean ==
    /\ metric = "none"
    /\ metric' = "TQmean"
    /\ result' = CalcTqmean(Qvalues)
    /\ UNCHANGED <<Qvalues, scale, result2, scriptVars>>

\* the R-B index of the bucket and of the bucket scaled by c
DoCalcRBindex ==
    /\ metric = "none"
    /\ \E c \in Scales :
        /\ scale' = c
        /\ result2' = CalcRBindex(Scaled(c, Qvalues))
    /\ metric' = "R-B Index"
    /\ result' = CalcRBindex(Qvalues)
    /\ UNCHANGED <<Qvalues, scriptVars>>

DoCalc7Q ==
    /\ metric = "none"
    /\ metric' = "7Q"
    /\ result' = Calc7Q(Qvalues)
    /\ UNCHANGED <<Qvalues, scale, result2, scriptVars>>

DoCalcExceed3TimesMedian ==
    /\ metric = "none"
    /\ metric' = "3xMedian"
    /\ result' = CalcExceed3TimesMedian(Qvalues)
    /\ UNCHANGED <<Qvalues, scale, result2, scriptVars>>

\* the annual row of the bucket and of the bucket without its missing entries
DoAnnualRow ==
    /\ metric = "none"
    /\ metric' = "annual"
    /\ result' = AnnualRow(Qvalues)
    /\ result2' = AnnualRow(dropna(Qvalues))
    /\ UNCHANGED <<Qvalues, scale, scriptVars>>

MetricNext ==
    \/ DoCalcTqmean
    \/ DoCalcRBindex
    \/ DoCalc7Q
    \/ DoCalcExceed3TimesMedian
    \/ DoAnnualRow

SpecMetric == MetricInit /\ [][MetricNext]_vars

---------------------------------------------------------------------------
(* Properties of the metric functions, checked under SpecMetric *)

PresentIdx(Q) == {i \in 1..Len(Q) : ~isna(Q[i])}

RECURSIVE SetSum(_, _)
\* the sum of f[i] over the finite set S
SetSum(f, S) ==
    IF S = {} THEN 0
    ELSE LET i == CHOOSE j \in S : TRUE IN f[i] + SetSum(f, S \ {i})

Total(Q) == SetSum([i \in PresentIdx(Q) |-> Q[i].n], PresentIdx(Q))

\* the number of present values strictly above the mean of the present values
AboveMean(Q) ==
    Cardinality({i \in PresentIdx(Q) :
        Q[i].n * Cardinality(PresentIdx(Q)) > Total(Q)})

\* the present index that follows i, when there is one
NextPresent(Q, i) ==
    CHOOSE j \in PresentIdx(Q) :
        j > i /\ \A h \in PresentIdx(Q) : h > i => j <= h

HasNext(Q) == {i \in PresentIdx(Q) : \E j \in PresentIdx(Q) : j > i}

\* the sum of |difference| between consecutive present values
PathLength(Q) ==
    SetSum([i \in HasNext(Q) |-> Abs(Q[NextPresent(Q, i)].n - Q[i].n)], HasNext(Q))

IsFinite(v) == v.k \in {"num", "root", "skew"}

\* C8 as stated: for every bucket, the empty one included, CalcTqmean is
\* count(v > mean)/n and lies in [0,1]
C8_Original ==
    metric = "TQmean" =>
        /\ result.k = "num"
        /\ result.n >= 0 /\ result.n <= result.d
        /\ result.n * Cardinality(PresentIdx(Qvalues)) = AboveMean(Qvalues) * result.d

\* C8 amended: for every bucket with at least one present value CalcTqmean is
\* count(v > mean)/n over the present values and lies in [0,1]; for a bucket
\* with no present value it is not-a-number
C8_Tqmean ==
    metric = "TQmean" =>
        IF PresentIdx(Qvalues) = {}
        THEN result = NaN
        ELSE /\ result.k = "num"
             /\ result.n >= 0 /\ result.n <= result.d
             /\ result.n * Cardinality(PresentIdx(Qvalues))
                    = AboveMean(Qvalues) * result.d

C8_Witness ==
    /\ metric = "TQmean"
    /\ \E i \in 1..Len(Qvalues) : isna(Qvalues[i])
    /\ Cardinality(PresentIdx(Qvalues)) >= 3
    /\ result.k = "num" /\ 0 < result.n /\ result.n < result.d

\* C9: for a bucket of non-zero total discharge the R-B index is the sum of
\* absolute differences between consecutive present values over the sum of
\* the present values, and scaling the bucket by c > 0 leaves it unchanged
C9_RBScaling ==
    (metric = "R-B Index" /\ Total(Qvalues) # 0) =>
        /\ result = Num(PathLength(Qvalues), Total(Qvalues))
        /\ result2 = result

C9_Witness ==
    /\ metric = "R-B Index"
    /\ scale = 3
    /\ Total(Qvalues) # 0
    /\ \E i \in 2..(Len(Qvalues) - 1) :
          isna(Qvalues[i]) /\ ~isna(Qvalues[i - 1]) /\ ~isna(Qvalues[i + 1])
             /\ Qvalues[i - 1] # Qvalues[i + 1]
    /\ result.k = "num" /\ result.n > 0

ZeroDivisor ==
    \/ metric = "TQmean" /\ PresentIdx(Qvalues) = {}
    \/ metric = "R-B Index" /\ Total(Qvalues) = 0
    \/ metric = "annual" /\ PresentIdx(Qvalues) # {} /\ Total(Qvalues) = 0

RatioResult ==
    IF metric = "annual" THEN result.Coeff_Var ELSE result

\* C10 as stated: a ratio metric whose divisor is zero is not-a-number
C10_Original == ZeroDivisor => RatioResult = NaN

\* the dividend of the ratio: zero, not zero, or (a standard deviation of
\* fewer than two values) missing
Dividend ==
    IF metric = "TQmean" THEN "zero"
    ELSE IF metric = "R-B Index"
         THEN (IF PathLength(Qvalues) = 0 THEN "zero" ELSE "positive")
    ELSE IF Cardinality(PresentIdx(Qvalues)) < 2 THEN "missing"
    ELSE IF \A i \in PresentIdx(Qvalues) : Qvalues[i].n = 0 THEN "zero"
    ELSE "positive"

\* C10 amended: a ratio metric whose divisor is zero is never a finite number:
\* it is not-a-number when its dividend is zero or missing and positive
\* infinity when its dividend is positive
C10_ZeroDivisor ==
    ZeroDivisor =>
        /\ ~IsFinite(RatioResult)
        /\ RatioResult = (IF Dividend = "positive" THEN Inf(1) ELSE NaN)

C10_Witness ==
    /\ metric = "R-B Index"
    /\ Total(Qvalues) = 0
    /\ result = Inf(1)

\* C2 as stated: Calc7Q returns a number, the minimum of the 7-day rolling
\* means of the present values, or not-a-number with fewer than 7 of them
C2_Claim ==
    metric = "7Q" =>
        result = (IF Cardinality(PresentIdx(Qvalues)) < Window7 THEN NaN
                  ELSE min(rolling_mean(dropna(Qvalues), Window7)))

\* C3 as stated: every metric of the annual row of a bucket equals the metric
\* of the bucket with its missing entries removed
C3_Claim == metric = "annual" => result = result2

---------------------------------------------------------------------------
(* Dates: <<year, month, day>> *)

DateLT(a, b) ==
    \/ a[1] < b[1]
    \/ a[1] = b[1] /\ a[2] < b[2]
    \/ a[1] = b[1] /\ a[2] = b[2] /\ a[3] < b[3]

DateLE(a, b) == a = b \/ DateLT(a, b)

IsLeap(y) == (y % 4 = 0 /\ y % 100 # 0) \/ y % 400 = 0

DaysInMonth(y, m) ==
    IF m = 2 THEN (IF IsLeap(y) THEN 29 ELSE 28)
    ELSE IF m \in {4, 6, 9, 11} THEN 30 ELSE 31

\* the calendar months from <<y, m>> on, counted from 0
MonthAfter(ym, j) ==
    <<ym[1] + ((ym[2] - 1 + j) \div 12), ((ym[2] - 1 + j) % 12) + 1>>

\* how many months <<y2, m2>> lies after <<y1, m1>>
MonthsBetween(a, b) == (b[1] - a[1]) * 12 + (b[2] - a[2])

Column(T, name) == [i \in 1..Len(T) |-> T[i][name]]

\* the first and the last date of an index, in whatever order it is
IndexMin(T) == CHOOSE d \in {T[i].Date : i \in 1..Len(T)} :
                   \A i \in 1..Len(T) : DateLE(d, T[i].Date)
IndexMax(T) == CHOOSE d \in {T[i].Date : i \in 1..Len(T)} :
                   \A i \in 1..Len(T) : DateLE(T[i].Date, d)

---------------------------------------------------------------------------
(* ClipData *)

\* a variant whose end bound is exclusive
ClipData_EndExclusive(T, startDate, endDate) ==
    LET left == Cardinality({i \in 1..Len(T) : DateLT(T[i].Date, startDate)})
        right == Cardinality({i \in 1..Len(T) : DateLT(T[i].Date, endDate)})
    IN  SubSeq(T, left + 1, right)

\* DataDF.loc[startDate:endDate] on a sorted index: the rows from the first
\* position whose date is not before startDate up to the last position whose
\* date is not after endDate
ClipData(T, startDate, endDate) ==
    LET left == Cardinality({i \in 1..Len(T) : DateLT(T[i].Date, startDate)})
        right == Cardinality({i \in 1..Len(T) : DateLE(T[i].Date, endDate)})
    IN  SubSeq(T, left + 1, right)

\* DataDF["Discharge"].isna().sum()
CountMissing(T) == Cardinality({i \in 1..Len(T) : isna(T[i].Discharge)})

---------------------------------------------------------------------------
(* GetAnnualStatistics *)

\* a variant that buckets by calendar year
WaterYearStart_Calendar(d) == <<d[1], 1, 1>>

\* the start of the 'AS-OCT' period a date falls in: October 1 on or before it
WaterYearStart(d) ==
    IF d[2] >= October THEN <<d[1], October, 1>> ELSE <<d[1] - 1, October, 1>>

\* the start of the period after the one starting at label
NextYearStart(label) == <<label[1] + 1, label[2], label[3]>>

\* the rows of one resample bin that is closed on the left: edge <= Date < next
BinLeft(T, edge, next) ==
    SelectSeq(T, LAMBDA r : DateLE(edge, r.Date) /\ DateLT(r.Date, next))

\* the mean of the site numbers of a bin
SiteMean(rows) == IF rows = <<>> THEN NaN ELSE mean(Column(rows, "site_no"))

GetAnnualStatistics(T) ==
    IF T = <<>> THEN <<>>
    ELSE LET first == WaterYearStart(IndexMin(T))
             last == WaterYearStart(IndexMax(T))
             label(j) == <<first[1] + j - 1, first[2], first[3]>>
         IN  [j \in 1..(last[1] - first[1] + 1) |->
                LET rows == BinLeft(T, label(j), NextYearStart(label(j)))
                IN  [Date |-> label(j), site_no |-> SiteMean(rows)]
                        @@ AnnualRow(Column(rows, "Discharge"))]

---------------------------------------------------------------------------
(* GetMonthlyStatistics *)

\* the label of an 'M' period: the last day of the month
MonthEnd(ym) == <<ym[1], ym[2], DaysInMonth(ym[1], ym[2])>>

\* the rows of one resample bin that is closed on the right: prev < Date <= edge
BinRight(T, prev, edge) ==
    SelectSeq(T, LAMBDA r : DateLT(prev, r.Date) /\ DateLE(r.Date, edge))

\* a variant that emits no row for a month without observations
GetMonthlyStatistics_SkipEmpty(T) ==
    IF T = <<>> THEN <<>>
    ELSE LET first == <<IndexMin(T)[1], IndexMin(T)[2]>>
             last == <<IndexMax(T)[1], IndexMax(T)[2]>>
             all == [j \in 1..(MonthsBetween(first, last) + 1) |->
                LET ym == MonthAfter(first, j - 1)
                    rows == BinRight(T, MonthEnd(MonthAfter(first, j - 2)), MonthEnd(ym))
                IN  [Date |-> MonthEnd(ym), site_no |-> SiteMean(rows)]
                        @@ MonthlyRow(Column(rows, "Discharge"))]
         IN  SelectSeq(all, LAMBDA r : ~isna(r.site_no))

GetMonthlyStatistics(T) ==
    IF T = <<>> THEN <<>>
    ELSE LET first == <<IndexMin(T)[1], IndexMin(T)[2]>>
             last == <<IndexMax(T)[1], IndexMax(T)[2]>>
         IN  [j \in 1..(MonthsBetween(first, last) + 1) |->
                LET ym == MonthAfter(first, j - 1)
                    rows == BinRight(T, MonthEnd(MonthAfter(first, j - 2)), MonthEnd(ym))
                IN  [Date |-> MonthEnd(ym), site_no |-> SiteMean(rows)]
                        @@ MonthlyRow(Column(rows, "Discharge"))]

---------------------------------------------------------------------------
(* GetMonthlyAverages *)

RAdd(x, y) == Num(x.n * y.d + y.n * x.d, x.d * y.d)

RECURSIVE RSum(_)
RSum(P) == IF P = <<>> THEN F(0) ELSE RAdd(Head(P), RSum(Tail(P)))

\* Series.mean() of a column of floats: missing values are skipped; a mean
\* of values that are not all rational is kept as the values it averages
ColMean(col) ==
    LET P == dropna(col)
    IN  IF P = <<>> THEN NaN
        ELSE IF \A i \in 1..Len(P) : P[i].k = "num"
             THEN Num(RSum(P).n, RSum(P).d * Len(P))
        ELSE [k |-> "mean", of |-> P]

\* col[m::12]: the values at the 0-based positions m, m+12, m+24, ...
Strided(col, m) ==
    LET picked == {i \in 1..Len(col) : i - 1 >= m /\ (i - 1 - m) % Stride = 0}
    IN  [j \in 1..Cardinality(picked) |-> col[m + 1 + (j - 1) * Stride]]

\* the (n, m) pairs of line 243: output position n takes input offset m
index == << <<0, 3>>, <<1, 4>>, <<2, 5>>, <<3, 6>>, <<4, 7>>, <<5, 8>>,
            <<6, 9>>, <<7, 10>>, <<8, 11>>, <<9, 0>>, <<10, 1>>, <<11, 2>> >>

\* a variant without the realignment: output position n takes input offset n
Offset_Unshifted(n) == n

Offset(n) == index[n + 1][2]

GetMonthlyAverages(T) ==
    [r \in 1..Rows |->
        [Month            |-> r,
         site_no          |-> ColMean(Strided(Column(T, "site_no"), 0)),
         Mean_Flow        |-> ColMean(Strided(Column(T, "Mean_Flow"), Offset(r - 1))),
         Coeff_Variantion |-> ColMean(Strided(Column(T, "Coeff_Variantion"), Offset(r - 1))),
         TQmean           |-> ColMean(Strided(Column(T, "TQmean"), Offset(r - 1))),
         RBindex          |-> ColMean(Strided(Column(T, "RBindex"), Offset(r - 1)))]]

---------------------------------------------------------------------------
(* The script: ReadData, ClipData, GetAnnualStatistics, GetMonthlyStatistics,
   GetMonthlyAverages, in that order (lines 284-303) *)

Obs(date, q) == [Date |-> date, site_no |-> F(SiteNo), Discharge |-> q]

GridDates == {<<2000, 2, 29>>, <<2000, 9, 30>>, <<2000, 10, 1>>, <<2000, 12, 31>>,
              <<2001, 1, 1>>, <<2001, 9, 30>>, <<2001, 10, 1>>, <<2001, 10, 31>>}
GridVals == {F(1), F(3), NaN}

\* observation tables of a few days around the period boundaries, in date order
SparseTables ==
    {T \in SeqsUpTo({Obs(d, q) : d \in GridDates, q \in GridVals}, 0, MaxObs) :
        \A i \in 1..(Len(T) - 1) : DateLT(T[i].Date, T[i + 1].Date)}

\* observation tables of regular observations from month s of the base year
\* on.  "month" and "position": one observation a month, on the 15th, whose
\* discharge is the calendar month or the position of the month in the table;
\* "twice": two observations a month, on the 1st and the 15th.
Patterns == {"month", "position", "twice"}
BaseMonth(s) == <<2000, s>>
MonthlyTable(s, len, pat) ==
    IF pat = "twice"
    THEN [i \in 1..(2 * len) |->
            LET ym == MonthAfter(BaseMonth(s), (i - 1) \div 2)
            IN  IF i % 2 = 1 THEN Obs(<<ym[1], ym[2], 1>>, F(1))
                ELSE Obs(<<ym[1], ym[2], 15>>, F(1 + (ym[2] % 3)))]
    ELSE [j \in 1..len |->
            LET ym == MonthAfter(BaseMonth(s), j - 1)
            IN  Obs(<<ym[1], ym[2], 15>>, F(IF pat = "month" THEN ym[2] ELSE j))]

MonthlyTables ==
    {MonthlyTable(s, len, pat) : s \in 1..12, len \in 1..MaxMonths, pat \in Patterns}

Files == SparseTables \cup MonthlyTables

StartDates == {<<2000, 1, 1>>, <<2000, 10, 1>>, <<2001, 10, 1>>}
EndDates == {<<2000, 9, 30>>, <<2001, 9, 30>>, <<2002, 9, 30>>}

\* the state after ReadData (line 284)
Init ==
    /\ Qvalues = <<>>
    /\ scale = 1
    /\ metric = "none"
    /\ result = NaN
    /\ result2 = NaN
    /\ pc = "read"
    /\ FileDF \in Files
    /\ DataDF = FileDF
    /\ MissingValues = CountMissing(FileDF)
    /\ window = NoWindow
    /\ WYDataDF = NoTable
    /\ MoDataDF = NoTable
    /\ MonthlyAverages = NoTable

\* line 288
DoClipData ==
    /\ pc = "read"
    /\ \E startDate \in StartDates, endDate \in EndDates :
        /\ window' = <<startDate, endDate>>
        /\ DataDF' = ClipData(DataDF, startDate, endDate)
        /\ MissingValues' = CountMissing(ClipData(DataDF, startDate, endDate))
    /\ pc' = "clipped"
    /\ UNCHANGED <<metricVars, FileDF, WYDataDF, MoDataDF, MonthlyAverages>>

\* line 292
DoGetAnnualStatistics ==
    /\ pc = "clipped"
    /\ WYDataDF' = GetAnnualStatistics(DataDF)
    /\ pc' = "annual"
    /\ UNCHANGED <<metricVars, FileDF, DataDF, MissingValues, window, MoDataDF,
                   MonthlyAverages>>

\* line 300
DoGetMonthlyStatistics ==
    /\ pc = "annual"
    /\ MoDataDF' = GetMonthlyStatistics(DataDF)
    /\ pc' = "monthly"
    /\ UNCHANGED <<metricVars, FileDF, DataDF, MissingValues, window, WYDataDF,
                   MonthlyAverages>>

\* line 303
DoGetMonthlyAverages ==
    /\ pc = "monthly"
    /\ MonthlyAverages' = GetMonthlyAverages(MoDataDF)
    /\ pc' = "averaged"
    /\ UNCHANGED <<metricVars, FileDF, DataDF, MissingValues, window, WYDataDF,
                   MoDataDF>>

Next ==
    \/ DoClipData
    \/ DoGetAnnualStatistics
    \/ DoGetMonthlyStatistics
    \/ DoGetMonthlyAverages

Spec == Init /\ [][Next]_vars

---------------------------------------------------------------------------
(* Properties of the script's tables, checked under Spec *)

Clipped == pc \in {"clipped", "annual", "monthly", "averaged"}
HasAnnual == pc \in {"annual", "monthly", "averaged"}
HasMonthly == pc \in {"monthly", "averaged"}

InWindow(r) == DateLE(window[1], r.Date) /\ DateLE(r.Date, window[2])

\* C6: ClipData returns exactly the observations dated within the inclusive
\* window, in their order, with the number of them whose discharge is
\* missing; an empty window gives the empty table and the count 0
C6_ClipData ==
    Clipped =>
        /\ DataDF = SelectSeq(FileDF, InWindow)
        /\ MissingValues = Cardinality({i \in 1..Len(FileDF) :
                               InWindow(FileDF[i]) /\ isna(FileDF[i].Discharge)})
        /\ (\A i \in 1..Len(FileDF) : ~InWindow(FileDF[i]))
               => (DataDF = <<>> /\ MissingValues = 0)

C6_Witness ==
    /\ pc = "clipped"
    /\ Len(FileDF) = 3 /\ Len(DataDF) = 2
    /\ DataDF[1].Date = window[1]
    /\ DataDF[2].Date = window[2]
    /\ MissingValues = 1

\* the last day of the water year that starts at label
WaterYearEnd(label) == <<label[1] + 1, 9, 30>>

InWaterYear(d, label) == DateLE(label, d) /\ DateLE(d, WaterYearEnd(label))

Metrics(row, names) == [c \in names |-> row[c]]

AnnualColumns == {"Mean_Flow", "Peak_Flow", "Median", "Coeff_Var", "Skew", "TQmean",
                  "RBindex", "Q7", "Median3x"}
MonthlyColumns == {"Mean_Flow", "Coeff_Variantion", "TQmean", "RBindex"}

\* C4: every observation falls in the water year of exactly one row, whose
\* metrics are those of the observations of that water year; the rows are
\* labelled October 1, ascending, one for every water year from that of the
\* first observation to that of the last
C4_WaterYears ==
    HasAnnual =>
        /\ \A i \in 1..Len(DataDF) :
              Cardinality({j \in 1..Len(WYDataDF) :
                  InWaterYear(DataDF[i].Date, WYDataDF[j].Date)}) = 1
        /\ \A j \in 1..Len(WYDataDF) :
              /\ WYDataDF[j].Date[2] = 10 /\ WYDataDF[j].Date[3] = 1
              /\ Metrics(WYDataDF[j], AnnualColumns) =
                    Metrics(AnnualRow(Column(
                        SelectSeq(DataDF, LAMBDA r : InWaterYear(r.Date, WYDataDF[j].Date)),
                        "Discharge")), AnnualColumns)
        /\ \A j \in 1..(Len(WYDataDF) - 1) :
              WYDataDF[j + 1].Date[1] = WYDataDF[j].Date[1] + 1
        /\ DataDF # <<>> =>
              /\ WYDataDF # <<>>
              /\ InWaterYear(DataDF[1].Date, WYDataDF[1].Date)
              /\ InWaterYear(DataDF[Len(DataDF)].Date, WYDataDF[Len(WYDataDF)].Date)

C4_Witness ==
    /\ pc = "annual"
    /\ Len(WYDataDF) = 3
    /\ \E i \in 1..Len(DataDF) : DataDF[i].Date = <<2000, 9, 30>>
    /\ \E i \in 1..Len(DataDF) : DataDF[i].Date = <<2001, 10, 1>>
    /\ isna(WYDataDF[2].Mean_Flow)
    /\ ~isna(WYDataDF[1].Mean_Flow)

YearMonth(d) == <<d[1], d[2]>>

RowMonths == {YearMonth(MoDataDF[j].Date) : j \in 1..Len(MoDataDF)}
DataMonths == {YearMonth(DataDF[i].Date) : i \in 1..Len(DataDF)}

Ascending ==
    \A j \in 1..(Len(MoDataDF) - 1) : DateLT(MoDataDF[j].Date, MoDataDF[j + 1].Date)

\* C5 as stated: one row per year-month present in the data, and no row for
\* a year-month without an observation, ascending
C5_Original ==
    HasMonthly =>
        /\ RowMonths = DataMonths
        /\ Len(MoDataDF) = Cardinality(DataMonths)
        /\ Ascending

\* C5 amended: one row per calendar month from the month of the first
\* observation through the month of the last one, ascending; a month in that
\* range without an observation has a row too, whose metrics are not-a-number
C5_MonthRows ==
    HasMonthly =>
        /\ DataMonths \subseteq RowMonths
        /\ Len(MoDataDF) = Cardinality(RowMonths)
        /\ Ascending
        /\ \A j \in 1..(Len(MoDataDF) - 1) :
              MonthsBetween(YearMonth(MoDataDF[j].Date), YearMonth(MoDataDF[j + 1].Date)) = 1
        /\ DataDF = <<>> => MoDataDF = <<>>
        /\ DataDF # <<>> =>
              /\ YearMonth(MoDataDF[1].Date) = YearMonth(DataDF[1].Date)
              /\ YearMonth(MoDataDF[Len(MoDataDF)].Date) = YearMonth(DataDF[Len(DataDF)].Date)
        /\ \A j \in 1..Len(MoDataDF) :
              YearMonth(MoDataDF[j].Date) \notin DataMonths
                  => \A c \in MonthlyColumns : isna(MoDataDF[j][c])

C5_Witness ==
    /\ pc = "monthly"
    /\ Len(DataDF) = 2
    /\ Len(MoDataDF) > 2
    /\ isna(MoDataDF[2].Mean_Flow)
    /\ ~isna(MoDataDF[1].Mean_Flow)

\* the mean of a column over the rows of the monthly table of calendar month c
MonthMean(c, col) ==
    ColMean(Column(SelectSeq(MoDataDF, LAMBDA r : r.Date[2] = c), col))

WholeWaterYears ==
    /\ MoDataDF # <<>>
    /\ Len(MoDataDF) % 12 = 0
    /\ MoDataDF[1].Date[2] = 10

WaterYearOrder == <<10, 11, 12, 1, 2, 3, 4, 5, 6, 7, 8, 9>>

\* C1 as stated: for a monthly table of whole water years the 12 rows are in
\* the order Oct, Nov, Dec, Jan, ..., Sep
C1_Original ==
    (pc = "averaged" /\ WholeWaterYears) =>
        /\ Len(MonthlyAverages) = 12
        /\ \A r \in 1..12 :
              MonthlyAverages[r].Mean_Flow = MonthMean(WaterYearOrder[r], "Mean_Flow")

\* C1 amended: for a monthly table of whole water years the 12 rows, indexed
\* 1..12, are in the order Jan, Feb, ..., Dec: the first holds the mean of the
\* Januaries' Mean_Flow and the last the mean of the Decembers'
C1_CalendarOrder ==
    (pc = "averaged" /\ WholeWaterYears) =>
        /\ Len(MonthlyAverages) = 12
        /\ \A r \in 1..12 :
              /\ MonthlyAverages[r].Month = r
              /\ MonthlyAverages[r].Mean_Flow = MonthMean(r, "Mean_Flow")

C1_Witness ==
    /\ pc = "averaged"
    /\ WholeWaterYears
    /\ Len(MoDataDF) = 24
    /\ MoDataDF[1].Mean_Flow # MoDataDF[13].Mean_Flow
    /\ MonthlyAverages[1].Mean_Flow = FDiv(RAdd(MoDataDF[4].Mean_Flow,
                                                MoDataDF[16].Mean_Flow), F(2))
    /\ MonthlyAverages[1].Mean_Flow # MonthlyAverages[10].Mean_Flow

\* C7 as stated: whatever the first month of the monthly table, the row of
\* calendar month c holds, in every metric column, the mean over the rows of
\* calendar month c
C7_Claim ==
    pc = "averaged" =>
        /\ Len(MonthlyAverages) = 12
        /\ \A c \in 1..12 : \A col \in MonthlyColumns :
              MonthlyAverages[c][col] = MonthMean(c, col)

===========================================================================
